---- MODULE Spec2Model ----
(***************************************************************************)
(* Model of the OAuth token lifecycle and calendar proxy of server.ts.     *)
(*                                                                         *)
(* One browser session is modelled: its cookie jar is the token store.     *)
(* A request snapshots the jar when the browser sends it, the handler runs *)
(* up to each await, and the response's Set-Cookie headers are applied to  *)
(* the jar when the browser receives it, so requests of the same session   *)
(* may overlap.  The identity provider and the calendar API are the        *)
(* environment: every result they can give is a nondeterministic choice.   *)
(* A "refresh call" is one oauth2Client.refreshAccessToken(), a "data      *)
(* call" one calendar.events.list(), an "exchange call" one getToken().    *)
(***************************************************************************)
EXTENDS Integers, Sequences, FiniteSets, TLC

\* ---------------------------------------------------------------- bounds
MaxReqs == 2       \* requests the session issues in one behaviour
MaxCodes == 1      \* authorization codes the provider hands out

\* ------------------------------------------------------- program constants
NoToken == 0       \* an absent cookie / undefined token
HttpOk == 200
BadRequest == 400
Unauthorized == 401
Forbidden == 403
Conflict == 409
ServerError == 500

VARIABLES cookies, reqs, tokens, usedCodes, lastDone

vars == <<cookies, reqs, tokens, usedCodes, lastDone>>

\* ----------------------------------------------------------- error values
\* An error message is a sequence of phrases; <<>> is a missing or empty
\* message (both falsy in `error.message && ...`).
NoMessage == <<>>

Messages ==
  { NoMessage,
    <<"Request failed">>,
    <<"invalid_grant">>,
    <<"Google Calendar", "API has not been used", "in project before">>,
    <<"Google Calendar API", "is disabled">>,
    <<"API has not been used", "or it", "is disabled">> }

\* 0 stands for an absent `code` / `response.status`.
ErrorCodes == {0, BadRequest, Unauthorized, Forbidden, ServerError}

AllErrors == [message : Messages, code : ErrorCodes, status : ErrorCodes]

MkErr(m, c, s) == [message |-> m, code |-> c, status |-> s]

NoErr == MkErr(NoMessage, 0, 0)

\* The failures drawn for requests that run concurrently.
SampleErrors ==
  { MkErr(<<"invalid_grant">>, BadRequest, BadRequest),
    MkErr(<<"Request failed">>, Unauthorized, Unauthorized),
    MkErr(<<"Request failed">>, Forbidden, Forbidden),
    MkErr(<<"Google Calendar API", "is disabled">>, Unauthorized, Unauthorized) }

\* String.prototype.includes on the phrase model of a message.
Includes(msg, phrase) == \E i \in 1..Len(msg) : msg[i] = phrase

\* ------------------------------------------------------------ JS truthiness
Truthy(t) == t # NoToken

\* ---------------------------------------------------------------- responses
NoItems == <<>>

EventLists == { <<"e1", "e2">> }

MkResp(st, body, er, det, lk, its, fl) ==
  [status |-> st, body |-> body, error |-> er, details |-> det,
   link |-> lk, items |-> its, flag |-> fl]

ErrorResp(st, er, det, lk) == MkResp(st, "error", er, det, lk, NoItems, FALSE)

SetCookie(name, val) == [op |-> "set", name |-> name, val |-> val]

ClearCookie(name) == [op |-> "clear", name |-> name, val |-> NoToken]

\* What the browser does with one Set-Cookie header.
ApplyOp(jar, o) ==
  IF o.op = "set" THEN [jar EXCEPT ![o.name] = o.val]
  ELSE [jar EXCEPT ![o.name] = NoToken]

RECURSIVE ApplyOps(_, _)
ApplyOps(jar, ops) ==
  IF ops = <<>> THEN jar ELSE ApplyOps(ApplyOp(jar, Head(ops)), Tail(ops))

\* ------------------------------------------------------------------ requests
NoCode == [shape |-> "missing", val |-> 0]

CodeInputs ==
  { NoCode, [shape |-> "array", val |-> 0] }
    \cup { [shape |-> "string", val |-> v] : v \in 0..MaxCodes }

\* Mutant: only the type of the code is tested.
CodeRejected_typeOnly(code) == code.shape # "string"

\* `!code || typeof code !== 'string'`; val 0 is the empty string.
CodeRejected(code) == code.shape = "missing" \/ code.val = 0 \/ code.shape # "string"

\* process.env: the settings getOAuthClient reads, each defined or not.
Required == {"GOOGLE_CLIENT_ID", "GOOGLE_CLIENT_SECRET", "APP_URL"}

NewReq(kind, pc, code) ==
  [kind |-> kind, pc |-> pc, env |-> Required, access |-> cookies.access,
   refresh |-> cookies.refresh, code |-> code, cred |-> cookies.access,
   newRefresh |-> NoToken, calls |-> <<>>, ops |-> <<>>, sends |-> <<>>,
   err |-> NoErr, prior |-> lastDone]

\* res.json / res.send; every send of the handlers is followed by a return.
Send(rq, resp) == [rq EXCEPT !.sends = Append(@, resp), !.pc = "returned"]

Ids == 1..Len(reqs)

InFlight == {r \in Ids : reqs[r].pc # "done"}

CanStart == Len(reqs) < MaxReqs

\* --------------------------------------------------- GET /api/auth/google/url
\* An undefined setting is passed on as it is; a missing APP_URL becomes ''.
getOAuthClient(env) ==
  [clientId |-> IF "GOOGLE_CLIENT_ID" \in env THEN "id" ELSE "undefined",
   clientSecret |-> IF "GOOGLE_CLIENT_SECRET" \in env THEN "secret" ELSE "undefined",
   redirectUri |-> IF "APP_URL" \in env THEN <<"app", "/auth/callback">>
                   ELSE <<"", "/auth/callback">>]

\* The query of the consent page, assembled from the client's fields.
generateAuthUrl(client) ==
  [client_id |-> client.clientId, redirect_uri |-> client.redirectUri,
   access_type |-> "offline", prompt |-> "consent"]

\* Nothing in the try block tests a setting, so its catch is never entered.
AuthUrlHandler(rq) ==
  Send(rq, MkResp(HttpOk, "url", "", NoMessage,
                  generateAuthUrl(getOAuthClient(rq.env)), NoItems, FALSE))

StartAuthUrl(env) ==
  /\ CanStart
  /\ reqs' = Append(reqs, AuthUrlHandler([NewReq("url", "start", NoCode)
                                            EXCEPT !.env = env]))
  /\ UNCHANGED <<cookies, tokens, usedCodes, lastDone>>

\* ------------------------------------------------------ GET /api/auth/status
\* Mutant: only the access cookie counts.
IsAuthenticated_accessOnly(a, r) == Truthy(a)

IsAuthenticated(a, r) == Truthy(a) \/ Truthy(r)

StatusHandler(rq) ==
  Send(rq, MkResp(HttpOk, "status", "", NoMessage, FALSE, NoItems,
                  IsAuthenticated(rq.access, rq.refresh)))

StartStatus ==
  /\ CanStart
  /\ reqs' = Append(reqs, StatusHandler(NewReq("status", "start", NoCode)))
  /\ UNCHANGED <<cookies, tokens, usedCodes, lastDone>>

\* ----------------------------------------------------- POST /api/auth/logout
\* Mutant: logout forgets the refresh cookie.
LogoutHandler_accessOnly(rq) ==
  Send([rq EXCEPT !.ops = <<ClearCookie("access")>>],
       MkResp(HttpOk, "logout", "", NoMessage, FALSE, NoItems, TRUE))

LogoutHandler(rq) ==
  Send([rq EXCEPT !.ops = <<ClearCookie("access"), ClearCookie("refresh")>>],
       MkResp(HttpOk, "logout", "", NoMessage, FALSE, NoItems, TRUE))

StartLogout ==
  /\ CanStart
  /\ reqs' = Append(reqs, LogoutHandler(NewReq("logout", "start", NoCode)))
  /\ UNCHANGED <<cookies, tokens, usedCodes, lastDone>>

\* ---------------------------------------------------------- identity provider
\* tokens[t] is the provider's record of token t; a token's value is its index.
\* Whether the provider or the calendar accepts a token at a given call (it may
\* have expired or been revoked) is their choice at that call; they never
\* accept a token that was not issued as that kind.
Issue(kind) == [kind |-> kind]

Acceptable(t, kind) == t \in 1..Len(tokens) /\ tokens[t].kind = kind

\* ------------------------------------------------------- GET /auth/callback
\* Mutant: the refresh cookie is never set.
CallbackCookies_accessOnly(at, rt) == <<SetCookie("access", at)>>

\* Lines 69-83: the access cookie is always set, the refresh cookie only when
\* the exchange returned a refresh token.
CallbackCookies(at, rt) ==
  <<SetCookie("access", at)>>
    \o (IF Truthy(rt) THEN <<SetCookie("refresh", rt)>> ELSE <<>>)

CallbackHandler(rq) ==
  IF CodeRejected(rq.code)
  THEN Send(rq, MkResp(BadRequest, "text", "Missing code", NoMessage, FALSE,
                       NoItems, FALSE))
  ELSE [rq EXCEPT !.pc = "exchange", !.calls = Append(@, "exchange")]

StartCallback(code) ==
  /\ CanStart
  /\ reqs' = Append(reqs, CallbackHandler(NewReq("callback", "start", code)))
  /\ UNCHANGED <<cookies, tokens, usedCodes, lastDone>>

\* getToken resolves: the provider consumes the code and issues an access
\* token and, when withRefresh, a refresh token.
ExchangeOk(r, withRefresh) ==
  LET rq == reqs[r]
      at == Len(tokens) + 1
      rt == IF withRefresh THEN Len(tokens) + 2 ELSE NoToken
  IN /\ rq.pc = "exchange"
     /\ rq.code.val \in 1..MaxCodes
     /\ rq.code.val \notin usedCodes
     /\ usedCodes' = usedCodes \cup {rq.code.val}
     /\ tokens' = tokens \o <<Issue("access")>>
                    \o (IF withRefresh THEN <<Issue("refresh")>> ELSE <<>>)
     /\ reqs' = [reqs EXCEPT ![r] =
          Send([rq EXCEPT !.cred = at, !.newRefresh = rt,
                          !.ops = @ \o CallbackCookies(at, rt)],
               MkResp(HttpOk, "html", "", NoMessage, FALSE, NoItems, TRUE))]
     /\ UNCHANGED <<cookies, lastDone>>

\* Mutant: a failed exchange ends the session.
ExchangeFail_clears(r) ==
  /\ reqs[r].pc = "exchange"
  /\ reqs' = [reqs EXCEPT ![r] =
       Send([reqs[r] EXCEPT !.ops = @ \o <<ClearCookie("access"), ClearCookie("refresh")>>],
            MkResp(ServerError, "text", "Authentication failed",
                   NoMessage, FALSE, NoItems, FALSE))]
  /\ UNCHANGED <<cookies, tokens, usedCodes, lastDone>>

\* getToken rejects (consumed or unknown code, provider or network failure).
ExchangeFail(r) ==
  /\ reqs[r].pc = "exchange"
  /\ reqs' = [reqs EXCEPT ![r] =
       Send(reqs[r], MkResp(ServerError, "text", "Authentication failed",
                            NoMessage, FALSE, NoItems, FALSE))]
  /\ UNCHANGED <<cookies, tokens, usedCodes, lastDone>>

\* -------------------------------------------------- GET /api/calendar/events
NeitherToken(a, r) == ~Truthy(a) /\ ~Truthy(r)

\* Mutant: the manual refresh is left to the client library.
NeedsRefresh_never(a, r) == FALSE

NeedsRefresh(a, r) == ~Truthy(a) /\ Truthy(r)

ApiDisabled(err) ==
  /\ err.message # NoMessage
  /\ \/ Includes(err.message, "API has not been used")
     \/ Includes(err.message, "is disabled")

HasStatus(err, s) == err.code = s \/ err.status = s

ClearBoth == <<ClearCookie("access"), ClearCookie("refresh")>>

DisabledResp ==
  ErrorResp(Conflict, "Google Calendar API is not enabled",
    <<"Please enable the Google Calendar API in your Google Cloud Console project.">>,
    TRUE)

ExpiredResp == ErrorResp(Unauthorized, "Authentication expired", NoMessage, FALSE)

\* Mutant: the upstream 403 is passed on as 403.
DeniedResp_403(err) ==
  ErrorResp(Forbidden, "Access Denied",
    IF err.message # NoMessage THEN err.message
    ELSE <<"You do not have permission to access this calendar.">>,
    FALSE)

DeniedResp(err) ==
  ErrorResp(Conflict, "Access Denied",
    IF err.message # NoMessage THEN err.message
    ELSE <<"You do not have permission to access this calendar.">>,
    FALSE)

FailureResp(err) ==
  ErrorResp(ServerError, "Failed to fetch events", err.message, FALSE)

\* Mutant: only the access cookie is cleared on 401.
CatchHandler_keepRefresh(rq, err) ==
  LET c == [rq EXCEPT !.err = err]
  IN IF ApiDisabled(err) THEN Send(c, DisabledResp)
     ELSE IF HasStatus(err, Unauthorized)
     THEN Send([c EXCEPT !.ops = Append(@, ClearCookie("access"))], ExpiredResp)
     ELSE IF HasStatus(err, Forbidden) THEN Send(c, DeniedResp(err))
     ELSE Send(c, FailureResp(err))

\* Mutant: the 401 test comes before the API-disabled test.
CatchHandler_authFirst(rq, err) ==
  LET c == [rq EXCEPT !.err = err]
  IN IF HasStatus(err, Unauthorized)
     THEN Send([c EXCEPT !.ops = @ \o ClearBoth], ExpiredResp)
     ELSE IF ApiDisabled(err) THEN Send(c, DisabledResp)
     ELSE IF HasStatus(err, Forbidden) THEN Send(c, DeniedResp(err))
     ELSE Send(c, FailureResp(err))

\* Mutant: the 401 branch lacks its return and falls through to the last send.
CatchHandler_fallThrough(rq, err) ==
  LET c == [rq EXCEPT !.err = err]
  IN IF ApiDisabled(err) THEN Send(c, DisabledResp)
     ELSE IF HasStatus(err, Unauthorized)
     THEN Send(Send([c EXCEPT !.ops = @ \o ClearBoth], ExpiredResp), FailureResp(err))
     ELSE IF HasStatus(err, Forbidden) THEN Send(c, DeniedResp(err))
     ELSE Send(c, FailureResp(err))

\* Mutant: on a 401 the clearing headers come before those already queued.
CatchHandler_clearFirst(rq, err) ==
  LET c == [rq EXCEPT !.err = err]
  IN IF ApiDisabled(err) THEN Send(c, DisabledResp)
     ELSE IF HasStatus(err, Unauthorized)
     THEN Send([c EXCEPT !.ops = ClearBoth \o @], ExpiredResp)
     ELSE IF HasStatus(err, Forbidden) THEN Send(c, DeniedResp(err))
     ELSE Send(c, FailureResp(err))

\* Mutant: a 403 ends the session like a 401.
CatchHandler_wipeOnDenied(rq, err) ==
  LET c == [rq EXCEPT !.err = err]
  IN IF ApiDisabled(err) THEN Send(c, DisabledResp)
     ELSE IF HasStatus(err, Unauthorized)
     THEN Send([c EXCEPT !.ops = @ \o ClearBoth], ExpiredResp)
     ELSE IF HasStatus(err, Forbidden)
     THEN Send([c EXCEPT !.ops = @ \o ClearBoth], DeniedResp(err))
     ELSE Send(c, FailureResp(err))

\* Mutant: a 401 of the data call is retried after a refresh.
CatchHandler_retry(rq, err) ==
  LET c == [rq EXCEPT !.err = err]
  IN IF ApiDisabled(err) THEN Send(c, DisabledResp)
     ELSE IF HasStatus(err, Unauthorized) /\ rq.calls = <<"data">> /\ Truthy(rq.refresh)
     THEN [c EXCEPT !.pc = "refresh", !.calls = Append(@, "refresh")]
     ELSE IF HasStatus(err, Unauthorized)
     THEN Send([c EXCEPT !.ops = @ \o ClearBoth], ExpiredResp)
     ELSE IF HasStatus(err, Forbidden) THEN Send(c, DeniedResp(err))
     ELSE Send(c, FailureResp(err))

\* The catch block: first match wins, each branch sends and returns.
CatchHandler(rq, err) ==
  LET c == [rq EXCEPT !.err = err]
  IN IF ApiDisabled(err) THEN Send(c, DisabledResp)
     ELSE IF HasStatus(err, Unauthorized)
     THEN Send([c EXCEPT !.ops = @ \o ClearBoth], ExpiredResp)
     ELSE IF HasStatus(err, Forbidden) THEN Send(c, DeniedResp(err))
     ELSE Send(c, FailureResp(err))

\* Mutant: the refresh branch is taken whenever the access token is missing.
EventsHandler_noGuard(rq) ==
  IF ~Truthy(rq.access)
  THEN [rq EXCEPT !.pc = "refresh", !.calls = Append(@, "refresh")]
  ELSE [rq EXCEPT !.pc = "list", !.calls = Append(@, "data")]

\* Mutant: a stored refresh token is always refreshed first.
EventsHandler_alwaysRefresh(rq) ==
  IF NeitherToken(rq.access, rq.refresh)
  THEN Send(rq, ErrorResp(Unauthorized, "Not authenticated", NoMessage, FALSE))
  ELSE IF Truthy(rq.refresh)
  THEN [rq EXCEPT !.pc = "refresh", !.calls = Append(@, "refresh")]
  ELSE [rq EXCEPT !.pc = "list", !.calls = Append(@, "data")]

\* The handler up to its first await.
EventsHandler(rq) ==
  IF NeitherToken(rq.access, rq.refresh)
  THEN Send(rq, ErrorResp(Unauthorized, "Not authenticated", NoMessage, FALSE))
  ELSE IF NeedsRefresh(rq.access, rq.refresh)
  THEN [rq EXCEPT !.pc = "refresh", !.calls = Append(@, "refresh")]
  ELSE [rq EXCEPT !.pc = "list", !.calls = Append(@, "data")]

StartEvents ==
  /\ CanStart
  /\ reqs' = Append(reqs, EventsHandler(NewReq("events", "start", NoCode)))
  /\ UNCHANGED <<cookies, tokens, usedCodes, lastDone>>

\* Mutant: the refreshed token is used but its cookie is not queued.
RefreshOk_noCookie(r) ==
  LET rq == reqs[r]
      at == Len(tokens) + 1
  IN /\ rq.pc = "refresh"
     /\ Acceptable(rq.refresh, "refresh")
     /\ tokens' = Append(tokens, Issue("access"))
     /\ reqs' = [reqs EXCEPT ![r] =
          [rq EXCEPT !.cred = at, !.calls = Append(@, "data"), !.pc = "list"]]
     /\ UNCHANGED <<cookies, usedCodes, lastDone>>

\* Mutant: the cookie is written from the request's own access token.
RefreshOk_staleCookie(r) ==
  LET rq == reqs[r]
      at == Len(tokens) + 1
  IN /\ rq.pc = "refresh"
     /\ Acceptable(rq.refresh, "refresh")
     /\ tokens' = Append(tokens, Issue("access"))
     /\ reqs' = [reqs EXCEPT ![r] =
          [rq EXCEPT !.cred = at, !.ops = Append(@, SetCookie("access", rq.access)),
                     !.calls = Append(@, "data"), !.pc = "list"]]
     /\ UNCHANGED <<cookies, usedCodes, lastDone>>

\* refreshAccessToken resolves: the refresh token buys a new access token,
\* the cookie update is queued and events.list is called.
RefreshOk(r) ==
  LET rq == reqs[r]
      at == Len(tokens) + 1
  IN /\ rq.pc = "refresh"
     /\ Acceptable(rq.refresh, "refresh")
     /\ tokens' = Append(tokens, Issue("access"))
     /\ reqs' = [reqs EXCEPT ![r] =
          [rq EXCEPT !.cred = at, !.ops = Append(@, SetCookie("access", at)),
                     !.calls = Append(@, "data"), !.pc = "list"]]
     /\ UNCHANGED <<cookies, usedCodes, lastDone>>

RefreshFail(r, err) ==
  /\ reqs[r].pc = "refresh"
  /\ reqs' = [reqs EXCEPT ![r] = CatchHandler(reqs[r], err)]
  /\ UNCHANGED <<cookies, tokens, usedCodes, lastDone>>

\* events.list resolves: the calendar answers the access token with events.
ListOk(r, items) ==
  /\ reqs[r].pc = "list"
  /\ Acceptable(reqs[r].cred, "access")
  /\ reqs' = [reqs EXCEPT ![r] =
       Send(reqs[r], MkResp(HttpOk, "events", "", NoMessage, FALSE, items, FALSE))]
  /\ UNCHANGED <<cookies, tokens, usedCodes, lastDone>>

ListFail(r, err) ==
  /\ reqs[r].pc = "list"
  /\ reqs' = [reqs EXCEPT ![r] = CatchHandler(reqs[r], err)]
  /\ UNCHANGED <<cookies, tokens, usedCodes, lastDone>>

\* ------------------------------------------------- the browser gets a response
Deliver(r) ==
  /\ reqs[r].pc = "returned"
  /\ Len(reqs[r].sends) > 0
  /\ cookies' = ApplyOps(cookies, reqs[r].ops)
  /\ reqs' = [reqs EXCEPT ![r].pc = "done"]
  /\ lastDone' = r
  /\ UNCHANGED <<tokens, usedCodes>>

\* --------------------------------------------------------------- environment
\* maxAge: the browser drops a cookie when its lifetime (an hour, thirty days)
\* is over.  Against a request's round trip these are long, so a cookie lapses
\* between requests.
AccessCookieLapses ==
  /\ Truthy(cookies.access)
  /\ InFlight = {}
  /\ cookies' = [cookies EXCEPT !.access = NoToken]
  /\ UNCHANGED <<reqs, tokens, usedCodes, lastDone>>

RefreshCookieLapses ==
  /\ Truthy(cookies.refresh)
  /\ InFlight = {}
  /\ cookies' = [cookies EXCEPT !.refresh = NoToken]
  /\ UNCHANGED <<reqs, tokens, usedCodes, lastDone>>

\* The server keeps no state of its own.  The session starts with whatever an
\* earlier login and the cookie lifetimes left in the jar: of the pair the
\* provider issued then (access token 1, refresh token 2) each cookie is
\* either still there or gone.
Init ==
  /\ cookies \in [access : {NoToken, 1}, refresh : {NoToken, 2}]
  /\ reqs = <<>>
  /\ tokens = <<Issue("access"), Issue("refresh")>>
  /\ usedCodes = {}
  /\ lastDone = 0

Next ==
  \/ StartStatus
  \/ StartLogout
  \/ \E code \in CodeInputs : StartCallback(code)
  \/ StartEvents
  \/ \E r \in Ids, withRefresh \in BOOLEAN : ExchangeOk(r, withRefresh)
  \/ \E r \in Ids : ExchangeFail(r)
  \/ \E r \in Ids : RefreshOk(r)
  \/ \E r \in Ids, err \in SampleErrors : RefreshFail(r, err)
  \/ \E r \in Ids, items \in EventLists : ListOk(r, items)
  \/ \E r \in Ids, err \in SampleErrors : ListFail(r, err)
  \/ \E r \in Ids : Deliver(r)
  \/ AccessCookieLapses
  \/ RefreshCookieLapses

Spec == Init /\ [][Next]_vars

\* The classifier on every error shape: one events request of the session,
\* whose refresh call or data call fails with any error of AllErrors.
FirstEvents == Len(reqs) = 0 /\ StartEvents

NextClassify ==
  \/ FirstEvents
  \/ \E r \in Ids : RefreshOk(r)
  \/ \E r \in Ids, err \in AllErrors : RefreshFail(r, err)
  \/ \E r \in Ids, err \in AllErrors : ListFail(r, err)
  \/ \E r \in Ids : Deliver(r)

SpecClassify == Init /\ [][NextClassify]_vars

\* Login-URL requests under every environment.  The handler reads and writes
\* no cookie, so it is left out of Next.
NextConfig ==
  \/ \E env \in SUBSET Required : StartAuthUrl(env)
  \/ \E r \in Ids : Deliver(r)
  \/ AccessCookieLapses
  \/ RefreshCookieLapses

SpecConfig == Init /\ [][NextConfig]_vars

\* ================================================================ properties
\* The handler of request r has run to its end.
Answered(r) == reqs[r].pc \in {"returned", "done"}

Done(r) == reqs[r].pc = "done"

\* The browser receives the response of request r in this step.
Delivered(r) == reqs[r].pc = "returned" /\ reqs'[r].pc = "done"

\* Request r is sent in this step.
Started(r) == r = Len(reqs) + 1 /\ Len(reqs') = r

EmptyJar == [access |-> NoToken, refresh |-> NoToken]

\* The outcome a response shows to the caller.
Outcome(resp) ==
  CASE resp.body = "events" -> "success"
    [] resp.body = "error" /\ resp.error = "Not authenticated" -> "NotAuthenticated"
    [] resp.body = "error" /\ resp.error = "Google Calendar API is not enabled" -> "ApiDisabled"
    [] resp.body = "error" /\ resp.error = "Authentication expired" -> "AuthExpired"
    [] resp.body = "error" /\ resp.error = "Access Denied" -> "AccessDenied"
    [] resp.body = "error" /\ resp.error = "Failed to fetch events" -> "UpstreamFailure"
    [] OTHER -> "none"

Outcomes ==
  {"success", "NotAuthenticated", "ApiDisabled", "AuthExpired", "AccessDenied",
   "UpstreamFailure"}

EventsReqs == {r \in Ids : reqs[r].kind = "events"}

\* C1: an events request of a session with neither token stored is answered
\* 401 NotAuthenticated at once, makes no refresh, data or exchange call, and
\* its response leaves the cookie jar as it is.
C1_NoTokensNoNetwork ==
  [][\A r \in 1..Len(reqs') :
       (reqs'[r].kind = "events" /\ reqs'[r].access = NoToken
          /\ reqs'[r].refresh = NoToken)
       => /\ reqs'[r].pc \in {"returned", "done"}
          /\ Len(reqs'[r].sends) = 1
          /\ reqs'[r].sends[1].status = Unauthorized
          /\ Outcome(reqs'[r].sends[1]) = "NotAuthenticated"
          /\ reqs'[r].calls = <<>>
          /\ (r \in Ids /\ Delivered(r) => cookies' = cookies)]_vars

C1_Witness ==
  \E r \in EventsReqs :
    /\ Done(r) /\ reqs[r].access = NoToken /\ reqs[r].refresh = NoToken
    /\ Outcome(reqs[r].sends[1]) = "NotAuthenticated"

\* C2: an events request of a session with only a refresh token stored makes
\* exactly one refresh call, as its first call; the data call follows only a
\* refresh that succeeded; the response then carries, as its first cookie
\* header, the access token the refresh returned, and on delivery the jar
\* holds that token (unless the same response is AuthExpired, which clears).
C2_RefreshOnceThenCommit ==
  [][\A r \in 1..Len(reqs') :
       LET q == reqs'[r] IN
       (q.kind = "events" /\ q.access = NoToken /\ q.refresh # NoToken)
       => /\ q.calls \in {<<"refresh">>, <<"refresh", "data">>}
          /\ (q.pc = "refresh" => q.calls = <<"refresh">>)
          /\ (q.pc = "list" => q.calls = <<"refresh", "data">>)
          /\ (Len(q.calls) = 2
                => /\ q.cred \in 1..Len(tokens')
                   /\ tokens'[q.cred].kind = "access"
                   /\ Len(q.ops) >= 1
                   /\ q.ops[1] = [op |-> "set", name |-> "access", val |-> q.cred])
          /\ (r \in Ids /\ Delivered(r) /\ Len(q.calls) = 2
                /\ Outcome(q.sends[1]) # "AuthExpired"
                => cookies'.access = q.cred)]_vars

C2_Witness ==
  \E r \in EventsReqs :
    /\ Done(r) /\ reqs[r].access = NoToken /\ reqs[r].refresh # NoToken
    /\ reqs[r].calls = <<"refresh", "data">>
    /\ Outcome(reqs[r].sends[1]) = "success"
    /\ cookies.access = reqs[r].cred

\* The message carries an API-disabled indicator.
DisabledIndicator(err) ==
  \E i \in 1..Len(err.message) :
    err.message[i] \in {"API has not been used", "is disabled"}

UpstreamSays(err, st) == err.code = st \/ err.status = st

\* C3: an events request that carried an access token and whose call was
\* answered unauthorized (no API-disabled indicator) ends AuthExpired with
\* 401; when its response arrives both cookies are gone; and a status check
\* sent next, before any other response arrives, reports false.
C3_AuthExpiredClears ==
  [][\A r \in 1..Len(reqs') :
       LET q == reqs'[r] IN
       /\ (q.kind = "events" /\ q.access # NoToken
             /\ q.pc \in {"returned", "done"}
             /\ UpstreamSays(q.err, Unauthorized) /\ ~DisabledIndicator(q.err))
          => /\ Len(q.sends) = 1
             /\ Outcome(q.sends[1]) = "AuthExpired"
             /\ q.sends[1].status = Unauthorized
             /\ (r \in Ids /\ Delivered(r)
                   => cookies' = EmptyJar
                      /\ ~IsAuthenticated(cookies'.access, cookies'.refresh))
       /\ (q.kind = "status" /\ q.prior \in 1..Len(reqs')
             /\ reqs'[q.prior].kind = "events"
             /\ Outcome(reqs'[q.prior].sends[1]) = "AuthExpired")
          => q.sends[1].flag = FALSE]_vars

C3_Witness ==
  \E r \in EventsReqs : \E s \in Ids :
    /\ Done(r) /\ reqs[r].access # NoToken /\ reqs[r].refresh # NoToken
    /\ UpstreamSays(reqs[r].err, Unauthorized)
    /\ Outcome(reqs[r].sends[1]) = "AuthExpired"
    /\ reqs[s].kind = "status" /\ reqs[s].prior = r /\ Done(s)
    /\ reqs[s].sends[1].flag = FALSE

\* The outcome the precedence table assigns to an upstream failure.
Expected(err) ==
  IF DisabledIndicator(err) THEN "ApiDisabled"
  ELSE IF UpstreamSays(err, Unauthorized) THEN "AuthExpired"
  ELSE IF UpstreamSays(err, Forbidden) THEN "AccessDenied"
  ELSE "UpstreamFailure"

\* An events request whose refresh call or data call failed.
Failed(r) ==
  /\ reqs[r].kind = "events" /\ Answered(r)
  /\ Len(reqs[r].calls) > 0
  /\ \A i \in 1..Len(reqs[r].sends) : Outcome(reqs[r].sends[i]) # "success"

\* C4: for every error shape the failure is classified by the first matching
\* rule: disabled indicator, then unauthorized, then forbidden, else upstream
\* failure; an error with both a disabled indicator and 401 is ApiDisabled.
C4_ClassifierPrecedence ==
  \A r \in Ids :
    Failed(r) => /\ Len(reqs[r].sends) = 1
                 /\ Outcome(reqs[r].sends[1]) = Expected(reqs[r].err)

C4_Witness ==
  \E r \in Ids :
    /\ Failed(r) /\ Done(r)
    /\ DisabledIndicator(reqs[r].err)
    /\ reqs[r].err.code = Unauthorized /\ reqs[r].err.status = Unauthorized
    /\ Outcome(reqs[r].sends[1]) = "ApiDisabled"

\* C5: an events request is waiting for the refresh call or the data call
\* with nothing sent, or its handler has ended with exactly one response,
\* whose outcome is one of the six.
C5_ExactlyOneOutcome ==
  \A r \in EventsReqs :
    /\ reqs[r].pc \in {"refresh", "list", "returned", "done"}
    /\ (reqs[r].pc \in {"refresh", "list"} => reqs[r].sends = <<>>)
    /\ (Answered(r) => /\ Len(reqs[r].sends) = 1
                       /\ Outcome(reqs[r].sends[1]) \in Outcomes)

C5_Witness ==
  \E r \in EventsReqs :
    /\ Done(r) /\ reqs[r].calls = <<"refresh">>
    /\ Len(reqs[r].sends) = 1
    /\ Outcome(reqs[r].sends[1]) = "AuthExpired"

\* C6: every logout is answered {success: true} without any upstream call,
\* and when its response arrives both cookies are absent, whatever the jar
\* held; so also for a logout sent right after a logout.
C6_LogoutIdempotent ==
  [][\A r \in 1..Len(reqs') :
       LET q == reqs'[r] IN
       q.kind = "logout"
       => /\ q.pc \in {"returned", "done"}
          /\ Len(q.sends) = 1
          /\ q.sends[1].status = HttpOk
          /\ q.sends[1].body = "logout"
          /\ q.sends[1].flag = TRUE
          /\ q.calls = <<>>
          /\ (r \in Ids /\ Delivered(r) => cookies' = EmptyJar)]_vars

C6_Witness ==
  \E r, s \in Ids :
    /\ reqs[r].kind = "logout" /\ reqs[s].kind = "logout"
    /\ Done(r) /\ Done(s) /\ reqs[s].prior = r
    /\ reqs[r].access # NoToken /\ reqs[r].refresh # NoToken
    /\ reqs[s].access = NoToken /\ reqs[s].refresh = NoToken
    /\ reqs[s].sends[1].flag = TRUE
    /\ cookies = EmptyJar

\* C7: a status check answers 200 with isAuthenticated true exactly when the
\* jar holds an access token or a refresh token at the time it is sent; it
\* makes no upstream call and sets no cookie.
C7_StatusFromPresence ==
  [][\A r \in 1..Len(reqs') :
       LET q == reqs'[r] IN
       q.kind = "status"
       => /\ q.pc \in {"returned", "done"}
          /\ Len(q.sends) = 1
          /\ q.sends[1].status = HttpOk
          /\ q.sends[1].body = "status"
          /\ q.calls = <<>>
          /\ q.ops = <<>>
          /\ (Started(r)
                => q.sends[1].flag
                     = (cookies.access # NoToken \/ cookies.refresh # NoToken))]_vars

C7_Witness ==
  \E r \in Ids :
    /\ reqs[r].kind = "status" /\ Done(r)
    /\ reqs[r].access = NoToken /\ reqs[r].refresh # NoToken
    /\ reqs[r].sends[1].flag = TRUE

CallbackReqs == {r \in Ids : reqs[r].kind = "callback"}

\* The callback answered with the page that signals the opener.
Completed(q) == Len(q.sends) >= 1 /\ q.sends[1].body = "html"

\* C8 as stated: a callback whose code was exchanged sets two cookies, the
\* access token and the refresh token.
C8_AlwaysTwoCookies ==
  \A r \in CallbackReqs :
    (Answered(r) /\ Completed(reqs[r]))
    => /\ Len(reqs[r].ops) = 2
       /\ reqs[r].ops[1].op = "set" /\ reqs[r].ops[1].name = "access"
       /\ reqs[r].ops[2].op = "set" /\ reqs[r].ops[2].name = "refresh"

\* C8 (amended): a callback whose code was exchanged answers 200 with the
\* page, sets the access cookie to the exchanged access token, and sets the
\* refresh cookie exactly when the exchange returned a refresh token;
\* otherwise the stored refresh token stays as it was.
C8_CookiesFromExchange ==
  [][\A r \in 1..Len(reqs') :
       LET q == reqs'[r] IN
       (q.kind = "callback" /\ q.pc \in {"returned", "done"} /\ Completed(q))
       => /\ Len(q.sends) = 1
          /\ q.sends[1].status = HttpOk
          /\ q.calls = <<"exchange">>
          /\ q.cred # NoToken
          /\ q.ops = <<[op |-> "set", name |-> "access", val |-> q.cred]>>
                \o (IF q.newRefresh # NoToken
                    THEN <<[op |-> "set", name |-> "refresh", val |-> q.newRefresh]>>
                    ELSE <<>>)
          /\ (r \in Ids /\ Delivered(r)
                => /\ cookies'.access = q.cred
                   /\ cookies'.refresh = (IF q.newRefresh # NoToken
                                          THEN q.newRefresh
                                          ELSE cookies.refresh))]_vars

C8_Witness ==
  \E r \in CallbackReqs :
    /\ Done(r) /\ Completed(reqs[r])
    /\ reqs[r].newRefresh # NoToken
    /\ cookies = [access |-> reqs[r].cred, refresh |-> reqs[r].newRefresh]

\* C9: a callback without a code, or with the empty string as code, is
\* answered 400 and makes no exchange call.
C9_MissingCodeNoExchange ==
  \A r \in CallbackReqs :
    (reqs[r].code.shape = "missing"
       \/ (reqs[r].code.shape = "string" /\ reqs[r].code.val = 0))
    => /\ Answered(r)
       /\ Len(reqs[r].sends) = 1
       /\ reqs[r].sends[1].status = BadRequest
       /\ reqs[r].calls = <<>>
       /\ reqs[r].ops = <<>>

C9_Witness ==
  \E r \in CallbackReqs :
    /\ Done(r)
    /\ reqs[r].code.shape = "string" /\ reqs[r].code.val = 0
    /\ reqs[r].sends[1].status = BadRequest

\* C10: the response of an events request has status 401 for NotAuthenticated
\* and AuthExpired, 409 for ApiDisabled and AccessDenied, 500 for
\* UpstreamFailure and 200 with the event array for success, and carries the
\* remediation link exactly when it is ApiDisabled.
C10_StatusCodes ==
  \A r \in EventsReqs :
    Answered(r) =>
      \A i \in 1..Len(reqs[r].sends) :
        LET resp == reqs[r].sends[i]
            o == Outcome(resp)
        IN /\ (o \in {"NotAuthenticated", "AuthExpired"} => resp.status = Unauthorized)
           /\ (o \in {"ApiDisabled", "AccessDenied"} => resp.status = Conflict)
           /\ (o = "UpstreamFailure" => resp.status = ServerError)
           /\ (o = "success" => resp.status = HttpOk /\ resp.body = "events")
           /\ (resp.link <=> o = "ApiDisabled")

C10_Witness ==
  \E r \in EventsReqs :
    /\ Done(r)
    /\ Outcome(reqs[r].sends[1]) = "AccessDenied"
    /\ reqs[r].sends[1].status = Conflict
    /\ ~reqs[r].sends[1].link

\* The calendar's answer to an access token it no longer accepts.
StaleAccess == MkErr(<<"Request failed">>, Unauthorized, Unauthorized)

\* The provider's answer to a refresh token it no longer accepts.
InvalidGrant == MkErr(<<"invalid_grant">>, BadRequest, BadRequest)

\* Nothing went wrong upstream for request q except, at most, that the
\* calendar found the stored access token stale at the data call.
OnlyAccessExpired(q) ==
  \/ (Len(q.calls) > 0 /\ q.err = NoErr)
  \/ (q.access # NoToken /\ q.calls = <<"data">> /\ q.err = StaleAccess)

\* C11 as stated: an events request of a session that holds a refresh token,
\* for which nothing fails upstream but the expiry of the access token (its
\* cookie lapsed, or the stored token is stale), returns the events, and its
\* response does not take the refresh token away.
C11_TransparentRefresh ==
  [][\A r \in Ids :
       (Delivered(r) /\ reqs[r].kind = "events" /\ reqs[r].refresh # NoToken
          /\ OnlyAccessExpired(reqs[r]))
       => /\ Outcome(reqs[r].sends[1]) = "success"
          /\ cookies'.refresh = cookies.refresh]_vars

\* C11 (amended): when the access cookie has lapsed and the refresh cookie is
\* there, the events request calls refresh, then the data call, never the
\* exchange; if neither call fails it returns the events, and its response
\* stores the new access token and leaves the refresh token in place.
C11_RefreshWhenCookieLapsed ==
  [][\A r \in 1..Len(reqs') :
       LET q == reqs'[r] IN
       (q.kind = "events" /\ q.access = NoToken /\ q.refresh # NoToken)
       => /\ q.calls \in {<<"refresh">>, <<"refresh", "data">>}
          /\ (q.pc \in {"returned", "done"} /\ q.err = NoErr
                => /\ q.calls = <<"refresh", "data">>
                   /\ Len(q.sends) = 1
                   /\ Outcome(q.sends[1]) = "success")
          /\ (r \in Ids /\ Delivered(r) /\ q.err = NoErr
                => /\ cookies'.refresh = cookies.refresh
                   /\ cookies'.access = q.cred)]_vars

C11_Witness ==
  \E r \in EventsReqs :
    /\ Done(r) /\ reqs[r].access = NoToken /\ reqs[r].refresh # NoToken
    /\ reqs[r].err = NoErr
    /\ Outcome(reqs[r].sends[1]) = "success"
    /\ \A s \in Ids : reqs[s].kind # "callback"
    /\ cookies = [access |-> reqs[r].cred, refresh |-> reqs[r].refresh]

\* The upstream rejected the credential of events request q as expired: the
\* call was answered unauthorized, or the refresh call failed with
\* invalid_grant.
RejectedAsExpired(q) ==
  \/ ((q.err.code = Unauthorized \/ q.err.status = Unauthorized)
        /\ ~DisabledIndicator(q.err))
  \/ (q.calls = <<"refresh">> /\ q.err = InvalidGrant)

\* C12: when the response of an events request whose credential the upstream
\* rejected as expired arrives, both tokens are absent and the status check
\* reports unauthenticated.
C12_RejectedCredentialDestroyed ==
  [][\A r \in Ids :
       (Delivered(r) /\ reqs[r].kind = "events" /\ RejectedAsExpired(reqs[r]))
       => /\ cookies' = EmptyJar
          /\ ~IsAuthenticated(cookies'.access, cookies'.refresh)]_vars

\* C13: an events request sent right after a completed callback (no other
\* response and no cookie lapse in between, so it carries the access token
\* the callback stored) makes the data call with that token and no refresh
\* call, and returns the events unless the data call fails.
C13_CallbackThenEvents ==
  \A s \in EventsReqs :
    LET q == reqs[s]
        p == q.prior
    IN (p \in Ids /\ reqs[p].kind = "callback" /\ Completed(reqs[p])
          /\ q.access = reqs[p].cred)
       => /\ q.calls = <<"data">>
          /\ q.cred = reqs[p].cred
          /\ (Answered(s) /\ q.err = NoErr
                => /\ Len(q.sends) = 1 /\ Outcome(q.sends[1]) = "success"
                   /\ q.ops = <<>>)

C13_Witness ==
  \E s \in EventsReqs :
    /\ reqs[s].prior \in Ids
    /\ reqs[reqs[s].prior].kind = "callback"
    /\ reqs[reqs[s].prior].code.val \in 1..MaxCodes
    /\ reqs[reqs[s].prior].newRefresh # NoToken
    /\ reqs[s].access = reqs[reqs[s].prior].cred
    /\ Done(s) /\ reqs[s].calls = <<"data">>
    /\ Outcome(reqs[s].sends[1]) = "success"

\* C14: a login-URL request is answered 500 exactly when a required setting
\* (client id, client secret, redirect base URL) is undefined; otherwise it
\* is answered {url}; its response leaves the cookie jar as it is.
C14_UrlFailsIffConfigMissing ==
  [][\A r \in Ids :
       (Delivered(r) /\ reqs[r].kind = "url")
       => /\ (reqs[r].sends[1].status = ServerError) <=> (reqs[r].env # Required)
          /\ (reqs[r].env = Required
                => reqs[r].sends[1].status = HttpOk /\ reqs[r].sends[1].body = "url")
          /\ cookies' = cookies]_vars

\* C15: one events request makes at most one refresh call and then at most
\* one data call, one callback request at most one exchange call; a request
\* whose call failed is answered once, with the classified failure, and makes
\* no call after the failure.
C15_NoRetry ==
  [][\A r \in 1..Len(reqs') :
       LET q == reqs'[r]
       IN /\ q.kind = "events"
               => q.calls \in {<<>>, <<"refresh">>, <<"data">>, <<"refresh", "data">>}
          /\ q.kind = "callback" => q.calls \in {<<>>, <<"exchange">>}
          /\ (q.kind \in {"events", "callback"} /\ q.err # NoErr)
               => /\ q.pc \in {"returned", "done"}
                  /\ Len(q.sends) = 1
                  /\ q.sends[1].status >= BadRequest
          /\ (r \in Ids /\ (reqs[r].err # NoErr \/ Answered(r)))
               => q.calls = reqs[r].calls /\ q.sends = reqs[r].sends]_vars

C15_Witness ==
  \E r \in EventsReqs :
    /\ Done(r)
    /\ reqs[r].calls = <<"refresh", "data">>
    /\ reqs[r].err = MkErr(<<"Request failed">>, Forbidden, Forbidden)
    /\ Outcome(reqs[r].sends[1]) = "AccessDenied"

\* Events request q was sent with only the refresh cookie and both its
\* refresh call and its data call succeeded.
RefreshedAndListed(q) ==
  /\ q.kind = "events" /\ q.access = NoToken /\ q.refresh # NoToken
  /\ q.calls = <<"refresh", "data">> /\ q.err = NoErr
  /\ q.pc \in {"returned", "done"}

\* C16: events requests sent with only the refresh cookie each make their own
\* refresh call and are issued different access tokens; when the response of
\* one whose calls succeeded is applied, the jar holds the access token that
\* request was issued (the last response applied wins) and the refresh cookie
\* is as before, so whatever the interleaving the jar then holds an issued
\* access token.
C16_LastWriterWins ==
  [][\A r \in Ids :
       (Delivered(r) /\ RefreshedAndListed(reqs[r]))
       => /\ cookies'.access = reqs[r].cred
          /\ reqs[r].cred \in 1..Len(tokens)
          /\ tokens[reqs[r].cred].kind = "access"
          /\ cookies'.refresh = cookies.refresh
          /\ \A s \in Ids \ {r} :
               RefreshedAndListed(reqs[s]) => reqs[s].cred # reqs[r].cred]_vars

C16_Witness ==
  \E r, s \in EventsReqs :
    /\ r < s
    /\ reqs[r].prior = 0 /\ reqs[s].prior = 0
    /\ RefreshedAndListed(reqs[r]) /\ RefreshedAndListed(reqs[s])
    /\ Done(r) /\ Done(s)
    /\ reqs[r].cred > reqs[s].cred
    /\ lastDone = s
    /\ cookies = [access |-> reqs[s].cred, refresh |-> reqs[s].refresh]

\* C17: once the response of a logout has been applied, the status check
\* answers unauthenticated (neither cookie stored) in every later state, as
\* long as no callback has completed - also when an events request that read
\* the refresh cookie before the logout is answered after it.
C17_LogoutFinal ==
  ( /\ \E l \in Ids : reqs[l].kind = "logout" /\ Done(l)
    /\ \A c \in CallbackReqs : ~Completed(reqs[c]) )
  => ~IsAuthenticated(cookies.access, cookies.refresh)

\* Events request q was sent with only the refresh cookie, its refresh call
\* succeeded and its data call was then rejected as unauthorized.
RefreshedThenRejected(q) ==
  /\ q.kind = "events" /\ q.access = NoToken /\ q.refresh # NoToken
  /\ q.calls = <<"refresh", "data">>
  /\ HasStatus(q.err, Unauthorized) /\ ~ApiDisabled(q.err)

\* C18: the response of an events request that refreshed and whose data call
\* was then rejected as unauthorized carries, in this order, the commit of
\* the refreshed access token and the clearing of both cookies; it is the
\* AuthExpired answer, and once applied the jar is empty and the status check
\* answers unauthenticated.
C18_CommitThenClear ==
  [][\A r \in 1..Len(reqs') :
       LET q == reqs'[r]
       IN RefreshedThenRejected(q)
          => /\ q.pc \in {"returned", "done"}
             /\ q.ops = <<SetCookie("access", q.cred)>> \o ClearBoth
             /\ q.cred # NoToken
             /\ Len(q.sends) = 1 /\ Outcome(q.sends[1]) = "AuthExpired"
             /\ (r \in Ids /\ Delivered(r))
                  => /\ cookies' = EmptyJar
                     /\ ~IsAuthenticated(cookies'.access, cookies'.refresh)]_vars

C18_Witness ==
  \E r \in EventsReqs :
    /\ RefreshedThenRejected(reqs[r])
    /\ Done(r) /\ lastDone = r
    /\ cookies = EmptyJar
    /\ \E s \in Ids : /\ reqs[s].kind = "status" /\ reqs[s].prior = r
                      /\ Answered(s) /\ ~reqs[s].sends[1].flag

\* C19: a callback answered 400 (code missing) or 500 (exchange failed, as
\* with a code that was already used) sets and clears no cookie: applying
\* its response leaves the jar exactly as it was.
C19_FailedCallbackNoChange ==
  [][\A r \in 1..Len(reqs') :
       LET q == reqs'[r]
       IN (q.kind = "callback" /\ q.pc \in {"returned", "done"}
             /\ q.sends[1].status \in {BadRequest, ServerError})
          => /\ q.ops = <<>>
             /\ (r \in Ids /\ Delivered(r)) => cookies' = cookies]_vars

C19_Witness ==
  \E r, s \in CallbackReqs :
    /\ Done(r) /\ Completed(reqs[r]) /\ reqs[r].newRefresh # NoToken
    /\ reqs[s].prior = r /\ reqs[s].code = reqs[r].code
    /\ Done(s) /\ reqs[s].sends[1].status = ServerError
    /\ cookies = [access |-> reqs[r].cred, refresh |-> reqs[r].newRefresh]

\* C20: the response of an events request whose outcome is not AuthExpired
\* carries no clearing header; applying it leaves the refresh cookie as it
\* was, and changes the access cookie only to the token the request's own
\* refresh call obtained.
C20_RefreshTokenOnlyOnExpired ==
  [][\A r \in Ids :
       LET q == reqs[r]
       IN (Delivered(r) /\ q.kind = "events" /\ Outcome(q.sends[1]) # "AuthExpired")
          => /\ Outcome(q.sends[1]) \in Outcomes
             /\ \A i \in 1..Len(q.ops) : q.ops[i].op # "clear"
             /\ cookies'.refresh = cookies.refresh
             /\ \/ cookies' = cookies
                \/ /\ q.calls[1] = "refresh"
                   /\ q.cred # NoToken
                   /\ cookies' = [cookies EXCEPT !.access = q.cred]]_vars

C20_Witness ==
  \E r \in EventsReqs :
    /\ Done(r) /\ lastDone = r
    /\ reqs[r].calls = <<"refresh", "data">>
    /\ reqs[r].err = MkErr(<<"Google Calendar API", "is disabled">>, Unauthorized, Unauthorized)
    /\ Outcome(reqs[r].sends[1]) = "ApiDisabled"
    /\ reqs[r].refresh # NoToken
    /\ cookies = [access |-> reqs[r].cred, refresh |-> reqs[r].refresh]

====
